---- MODULE Spec2Model ----
\* A model of PageScrollService (ngx-page-scroll-core): the controller of
\* scroll animations, its running set, the interval timers it schedules, the
\* interrupt reporter and the stop operations.
EXTENDS Integers, Sequences, FiniteSets, TLC

\* ---------------------------------------------------------------- bounds
\* scroll offsets range over 0..MaxPos
MaxPos == 2
\* the clock (new Date().getTime()) ranges over 0..MaxTime
MaxTime == 2
\* the explicit `duration` options the callers use: 1..MaxDuration
MaxDuration == 2
\* completion callbacks an instance may still be owed before the model
\* stops issuing further start calls on it
MaxOwed == 2
\* the calls into the controller that finish listeners make from inside one
\* operation before the model stops following it
MaxReactions == 2
\* the entries of the running set, and the live timers, with which the
\* model still follows an operation
MaxRunning == 2

\* ---------------------------------------------------------------- values
\* the PageScrollInstance objects the callers hold
Inst == {"p", "q"}
\* the scrollable DOM elements
View == {"v1", "v2"}
\* a null / undefined entry of the scrollViews array
Null == "null"
\* a value that may be missing: None is undefined, null or (for a number)
\* NaN; Some(x) is the value x
None == <<>>
Some(x) == <<x>>
Val(o) == o[1]
\* a namespace option that is undefined or the empty string (falsy)
NoNamespace == ""
Namespace == {NoNamespace, "a", "b"}
\* the `speed` options the callers use (pixels per second)
Speeds == {1000}
\* config._interval, in ms
Interval == 1
\* pageScrollOptions._minScrollDistance, in pixels
MinScrollDistance == 2
\* config.interruptKeys and the key codes of the keyboard
InterruptKeys == {38}
KeyCode == {9, 38}
\* where a mouse press can land: a press inside one view is a press
\* outside the other
Node == View

\* the namespace options an instance can be created with: p has a
\* namespace, q the same one, another one or none
NamespaceOf(i) == IF i = "p" THEN {"a"} ELSE Namespace

\* the scrollViews options an instance can be created with: p scrolls one
\* view or has an empty array, q scrolls an array whose first entry is
\* undefined or has no array at all
ScrollViewsOf(i) ==
  IF i = "p" THEN {Some(<<"v1">>), Some(<<>>)}
  ELSE {Some(<<Null, "v2">>), None}

VARIABLES
  pageScrollOptions,   \* per instance: the merged options
  instances,           \* per instance: the run-state fields
  runningInstances,    \* the sequence PageScrollService.runningInstances
  intervals,           \* the live setInterval timers: [id, arg, at], the
                       \* handle, the instance passed on, the time set
  scrollTop,           \* per view: its scroll offset
  currentTime,         \* the clock
  owed,                \* per instance: start calls minus callbacks fired
  pageScrollFinish,    \* per instance: what the subscriber to its finish
                       \* event does when the scroll was not successful:
                       \* nothing (None), or a call into the controller
  last                 \* the last operation, its result and callbacks

vars == <<pageScrollOptions, instances, runningInstances, intervals,
          scrollTop, currentTime, owed, pageScrollFinish, last>>

Abs(x) == IF x < 0 THEN -x ELSE x

\* Math.round of the rational n / d, d > 0 (halves round up)
Round(n, d) == (2 * n + d) \div (2 * d)

\* ------------------------------------------------- the controller state
\* The operations below are functions on a record of the mutable state, so
\* that an operation that calls another (start -> stopAll -> stopInternal)
\* composes them:
\*   run   runningInstances        inst  the instances' fields
\*   live  the live timers         pos   the views' scroll offsets
\*   fired the callbacks fired so far in this operation, in order
\*   owed  start calls minus callbacks
\*   fuel  the calls finish listeners may still make in this operation;
\*   cut   one more was due; hung: the operation is in a loop without end
Current ==
  [run |-> runningInstances, inst |-> instances, live |-> intervals,
   pos |-> scrollTop, fired |-> <<>>, owed |-> owed,
   fuel |-> MaxReactions, cut |-> FALSE, hung |-> FALSE]

RECURSIVE Start(_, _, _)
RECURSIVE Stop(_, _)
RECURSIVE StopAll(_, _)

\* the start a finish listener makes: a target away from the start
\* position, a duration longer than the interval, views that take writes
ListenerInput ==
  [target |-> Some(MaxPos), duration |-> Some(MaxDuration), speed |-> None,
   accept |-> View, time |-> currentTime]

\* a finish listener calls the controller, from inside fireEvent
React(s, call) ==
  CASE call.op = "start" ->
         Start([s EXCEPT !.owed[call.arg] = @ + 1], call.arg,
               ListenerInput).s
    [] call.op = "stop" -> Stop(s, call.arg).s
    [] call.op = "stopAll" -> StopAll(s, call.arg).s

\* PageScrollInstance.fireEvent(value): emits value to the finish listener,
\* which runs before fireEvent returns
FireEvent(s, i, value) ==
  LET s1 == [s EXCEPT !.fired = Append(@, <<i, value>>), !.owed[i] = @ - 1]
  IN  IF value \/ pageScrollFinish[i] = None \/ s1.hung \/ s1.cut THEN s1
      ELSE IF s1.fuel = 0 THEN [s1 EXCEPT !.cut = TRUE]
      ELSE React([s1 EXCEPT !.fuel = @ - 1], Val(pageScrollFinish[i]))

\* PageScrollInstance.detachInterruptListeners()
DetachInterruptListeners(s, i) ==
  [s EXCEPT !.inst[i].interruptListenersAttached = FALSE]

\* PageScrollInstance.attachInterruptListeners(reporter)
AttachInterruptListeners(s, i) ==
  [s EXCEPT !.inst[i].interruptListenersAttached = TRUE]

\* Array.prototype.indexOf, 1-based; 0 when absent
IndexOf(seq, x) ==
  IF \E k \in 1..Len(seq) : seq[k] = x
  THEN CHOOSE k \in 1..Len(seq) :
         seq[k] = x /\ \A j \in 1..(k - 1) : seq[j] # x
  ELSE 0

\* Array.prototype.splice(index, 1), 1-based
Splice(seq, k) ==
  [j \in 1..(Len(seq) - 1) |-> IF j < k THEN seq[j] ELSE seq[j + 1]]

\* a clearInterval that leaves the timer running
ClearIntervalNot(s, h) == s

\* clearInterval(handle)
ClearInterval(s, h) ==
  [s EXCEPT !.live = {t \in @ : t.id # h}]

\* stopInternal without its test of the timer: the finish event is fired
\* for an instance that has no timer too
StopInternalFiresAlways(s, interrupted, i) ==
  LET index == IndexOf(s.run, i)
      s1 == IF index >= 1 THEN [s EXCEPT !.run = Splice(@, index)] ELSE s
      s2 == IF s1.inst[i].interruptListenersAttached
            THEN DetachInterruptListeners(s1, i) ELSE s1
  IN  [s   |-> FireEvent(
                 [ClearInterval(s2, s2.inst[i].timer)
                    EXCEPT !.inst[i].timer = 0],
                 i, ~interrupted),
       ret |-> s2.inst[i].timer # 0]

\* stopInternal without the detaching of the listeners
StopInternalKeepsListeners(s, interrupted, i) ==
  LET index == IndexOf(s.run, i)
      s1 == IF index >= 1 THEN [s EXCEPT !.run = Splice(@, index)] ELSE s
  IN  IF s1.inst[i].timer # 0
      THEN [s   |-> FireEvent(
                      [ClearInterval(s1, s1.inst[i].timer)
                         EXCEPT !.inst[i].timer = 0],
                      i, ~interrupted),
            ret |-> TRUE]
      ELSE [s |-> s1, ret |-> FALSE]

\* stopInternal(interrupted, instance): the new state and the return value
StopInternal(s, interrupted, i) ==
  LET index == IndexOf(s.run, i)
      s1 == IF index >= 1 THEN [s EXCEPT !.run = Splice(@, index)] ELSE s
      s2 == IF s1.inst[i].interruptListenersAttached
            THEN DetachInterruptListeners(s1, i) ELSE s1
  IN  IF s2.inst[i].timer # 0
      THEN [s   |-> FireEvent(
                      [ClearInterval(s2, s2.inst[i].timer)
                         EXCEPT !.inst[i].timer = 0],
                      i, ~interrupted),
            ret |-> TRUE]
      ELSE [s |-> s2, ret |-> FALSE]

\* the test of stopAll that takes every instance
MatchesAll(namespace, i) == TRUE

\* the test of stopAll without the comparison of the namespaces
MatchesNoNamespaceOnly(namespace, i) ==
  namespace = NoNamespace

\* the test of stopAll: no namespace given, or the instance's namespace
Matches(namespace, i) ==
  namespace = NoNamespace \/ pageScrollOptions[i].namespace = namespace

\* what an iteration of the loop of stopAll depends on: the controller's
\* state and the cursor
LoopState(s, k) == <<s.run, s.inst, s.live, s.pos, k>>

\* the loop without the i-- after a stop: the cursor moves on over the
\* instance that took the place of the stopped one
RECURSIVE StopAllLoopNoDecrement(_, _, _, _, _)
StopAllLoopNoDecrement(s, namespace, k, stoppedSome, seen) ==
  IF s.hung \/ k > Len(s.run)
  THEN [s |-> s, ret |-> stoppedSome]
  ELSE IF LoopState(s, k) \in seen
  THEN [s |-> [s EXCEPT !.hung = TRUE], ret |-> stoppedSome]
  ELSE LET i == s.run[k]
           seenNow == seen \cup {LoopState(s, k)}
       IN  IF Matches(namespace, i)
           THEN StopAllLoopNoDecrement(StopInternal(s, TRUE, i).s, namespace,
                                       k + 1, TRUE, seenNow)
           ELSE StopAllLoopNoDecrement(s, namespace, k + 1, stoppedSome,
                                       seenNow)

\* the for loop of stopAll, with its cursor k (1-based) into the array: a
\* stopped instance leaves the array, and the cursor stays (i-- then ++i).
\* seen: the states the iterations so far began in; an iteration that
\* begins in one of them again repeats what followed it, without end.
RECURSIVE StopAllLoop(_, _, _, _, _)
StopAllLoop(s, namespace, k, stoppedSome, seen) ==
  IF s.hung \/ k > Len(s.run)
  THEN [s |-> s, ret |-> stoppedSome]
  ELSE IF LoopState(s, k) \in seen
  THEN [s |-> [s EXCEPT !.hung = TRUE], ret |-> stoppedSome]
  ELSE LET i == s.run[k]
           seenNow == seen \cup {LoopState(s, k)}
       IN  IF Matches(namespace, i)
           THEN StopAllLoop(StopInternal(s, TRUE, i).s, namespace, k, TRUE,
                            seenNow)
           ELSE StopAllLoop(s, namespace, k + 1, stoppedSome, seenNow)

\* stopAll(namespace?)
StopAll(s, namespace) ==
  IF Len(s.run) > 0
  THEN StopAllLoop(s, namespace, 1, FALSE, {})
  ELSE [s |-> s, ret |-> FALSE]

\* stop(instance)
Stop(s, i) == StopInternal(s, TRUE, i)

\* PageScrollInstance.getScrollPropertyValue(view): scrollTop / scrollLeft
GetScrollPropertyValue(s, view) == s.pos[view]

\* PageScrollInstance.setScrollPosition(position): writes the offset of
\* every view of the instance that takes the write (accept: the views that
\* do); TRUE iff the write worked for at least one view
SetScrollPosition(s, i, position, accept) ==
  LET views == Val(pageScrollOptions[i].scrollViews)
      took == {views[k] : k \in 1..Len(views)} \cap accept
  IN  [s   |-> [s EXCEPT !.pos = [v \in View |->
                                   IF v \in took THEN position ELSE @[v]]],
       ret |-> took # {}]

\* the forEach of start: the offset of the first view that has one that is
\* neither undefined nor 0, else 0
RECURSIVE ProbeStartPosition(_, _, _)
ProbeStartPosition(s, views, k) ==
  IF k > Len(views) THEN 0
  ELSE IF views[k] = Null THEN ProbeStartPosition(s, views, k + 1)
  ELSE IF GetScrollPropertyValue(s, views[k]) # 0
       THEN GetScrollPropertyValue(s, views[k])
       ELSE ProbeStartPosition(s, views, k + 1)

\* executionDuration: the duration option, or |distance| / speed * 1000
\* when a speed is given and no duration
ExecutionDuration(duration, speed, distance) ==
  IF speed # None /\ duration = None
  THEN (Abs(distance) * 1000) \div Val(speed)
  ELSE Val(duration)

AllReadyAtDestination(distance) == Abs(distance) < MinScrollDistance

\* the test with < for <=
TooShortIntervalStrict(executionDuration) == executionDuration < Interval

TooShortInterval(executionDuration) == executionDuration <= Interval

\* setInterval: a handle that no live timer has
NewTimer(s) ==
  CHOOSE h \in 1..(Cardinality(s.live) + 1) : \A t \in s.live : t.id # h

\* the test without the test of the length
HasNoScrollViewsNullOnly(o) == o.scrollViews = None

\* the test of start for an instance that has nothing to scroll
HasNoScrollViews(o) == o.scrollViews = None \/ Len(Val(o.scrollViews)) = 0

\* the jump of start: the target is written and the finish event fired
JumpToTarget(s, i, target, accept) ==
  FireEvent(SetScrollPosition(s, i, target, accept).s, i, TRUE)

\* the start that finds no target, without its finish event
AbortStartSilently(s, i) == s

\* the end of a start that finds no target: the finish event is fired
AbortStart(s, i) == FireEvent(s, i, FALSE)

\* start(instance). in: what the call reads from its environment:
\*   target    Math.round(target coordinate - offset), None when NaN
\*   duration, speed   the options of that name
\*   accept    the views that take a write of their scroll offset
\*   time      new Date().getTime()
\* The result names the path taken, the start position, the duration and
\* whether the write of the jump took.
Start(s, i, in) ==
  LET o == pageScrollOptions[i]
      s0 == StopAll(s, o.namespace).s
  IN
  IF HasNoScrollViews(o)
  THEN [s |-> s0, wrote |-> FALSE, path |-> "noScrollViews",
        from |-> None, exec |-> None]
  ELSE
  LET startPos == ProbeStartPosition(s0, Val(o.scrollViews), 1)
      distance == IF in.target = None THEN None
                  ELSE Some(Val(in.target) - startPos)
      s1 == [s0 EXCEPT !.inst[i].startScrollPosition = Some(startPos),
                       !.inst[i].targetScrollPosition = in.target,
                       !.inst[i].distanceToScroll = distance]
  IN
  IF distance = None
  THEN [s |-> AbortStart(s1, i), wrote |-> FALSE, path |-> "noTarget",
        from |-> Some(startPos), exec |-> None]
  ELSE
  LET exec == ExecutionDuration(in.duration, in.speed, Val(distance))
      s2 == [s1 EXCEPT !.inst[i].executionDuration = Some(exec)]
  IN
  IF AllReadyAtDestination(Val(distance)) \/ TooShortInterval(exec)
  THEN [s |-> JumpToTarget(s2, i, Val(in.target), in.accept),
        wrote |-> SetScrollPosition(s2, i, Val(in.target), in.accept).ret,
        path |-> "jump", from |-> Some(startPos), exec |-> Some(exec)]
  ELSE
  LET s3 == IF o.interruptible THEN AttachInterruptListeners(s2, i) ELSE s2
      h == NewTimer(s3)
  IN  [s |-> [s3 EXCEPT !.inst[i].startTime = Some(in.time),
                        !.inst[i].endTime = Some(in.time + exec),
                        !.inst[i].timer = h,
                        !.live = @ \cup {[id |-> h, arg |-> i,
                                          at |-> in.time]},
                        !.run = Append(@, i)],
       wrote |-> FALSE,
       path |-> "scheduled", from |-> Some(startPos), exec |-> Some(exec)]

\* the easing function of the options (easeInOutQuad), as the rational
\* num / den: b + 2c(t/d)^2 in the first half of the duration d, and
\* b + c(4dt - 2t^2 - d^2) / d^2 in the second
EasingLogic(t, b, c, d) ==
  IF 2 * t < d
  THEN [num |-> b * d * d + 2 * c * t * t, den |-> d * d]
  ELSE [num |-> b * d * d + c * (4 * d * t - 2 * t * t - d * d),
        den |-> d * d]

\* the test of the timer callback with its operands swapped
OverSwapped(endTime, time) == time <= endTime

\* the test of the timer callback for the end of the animation
Over(endTime, time) == endTime <= time

\* stopNow without the early stop on a failed write
StopNowAtEndOnly(over, wrote) == over

\* stopNow of the timer callback: the end time is reached, or the write of
\* the new position failed for every scroll view
StopNow(over, wrote) == over \/ ~wrote

\* the callback of setInterval, called with the instance the timer was
\* scheduled for. time: new Date().getTime(); accept: as for start.
\* The new position is NaN when the target is (a later start of the
\* instance found none) or when the execution duration is 0 (0 / 0); no
\* view takes a NaN.
Tick(s, i, time, accept) ==
  LET f == s.inst[i]
      over == Over(Val(f.endTime), time)
      e == EasingLogic(time - Val(f.startTime), Val(f.startScrollPosition),
                       Val(f.distanceToScroll), Val(f.executionDuration))
      isNaN == IF over THEN f.targetScrollPosition = None
               ELSE f.distanceToScroll = None
                    \/ Val(f.executionDuration) = 0
      newScrollPosition == IF over THEN Val(f.targetScrollPosition)
                           ELSE Round(e.num, e.den)
      w == IF isNaN THEN [s |-> s, ret |-> FALSE]
           ELSE SetScrollPosition(s, i, newScrollPosition, accept)
      stopNow == StopNow(over, w.ret)
  IN  IF stopNow
      THEN [s |-> StopInternal(w.s, FALSE, i).s, wrote |-> w.ret,
            path |-> IF over THEN "completed" ELSE "aborted"]
      ELSE [s |-> w.s, wrote |-> w.ret, path |-> "moved"]

\* scrollViews.some(view => view.contains(event.target)): "yes", "no", or
\* "throws" when the iteration meets an undefined entry before a view that
\* contains the target (a property access on undefined is a TypeError)
RECURSIVE SomeContains(_, _, _)
SomeContains(views, target, k) ==
  IF k > Len(views) THEN "no"
  ELSE IF views[k] = Null THEN "throws"
  ELSE IF views[k] = target THEN "yes"
  ELSE SomeContains(views, target, k + 1)

\* shouldStop without the test of the key code
ShouldStopAlways(event, i) == TRUE

\* shouldStop of onInterrupted.report
ShouldStop(event, i) ==
  CASE event.type = "keyup" -> event.keyCode \in InterruptKeys
    [] event.type = "mousedown" ->
         SomeContains(Val(pageScrollOptions[i].scrollViews),
                      event.target, 1) = "yes"
    [] OTHER -> TRUE

\* onInterrupted.report(event, instance)
Report(s, event, i) ==
  IF ~pageScrollOptions[i].interruptible THEN s
  ELSE IF event.type = "mousedown"
          /\ SomeContains(Val(pageScrollOptions[i].scrollViews),
                          event.target, 1) = "throws"
  THEN s
  ELSE IF ShouldStop(event, i)
  THEN StopAll(s, pageScrollOptions[i].namespace).s
  ELSE s

\* ------------------------------------------------------------- the events
Event ==
  [type : {"keyup"}, keyCode : KeyCode, target : {Null}]
    \cup [type : {"mousedown"}, keyCode : {0}, target : Node]

\* the views that take a write of their scroll offset: all, or none
Writes == {{}, View}

\* the options and readings a start call can meet: a target that resolves
\* or not, a duration or (without one) a speed, the views that take writes
StartInput ==
  [target : {None} \cup {Some(x) : x \in 0..MaxPos},
   timing : {[duration |-> Some(d), speed |-> None] : d \in 1..MaxDuration}
              \cup {[duration |-> None, speed |-> Some(v)] : v \in Speeds},
   accept : Writes]

Undefined ==
  [startScrollPosition |-> None, targetScrollPosition |-> None,
   distanceToScroll |-> None, executionDuration |-> None,
   startTime |-> None, endTime |-> None,
   timer |-> 0, interruptListenersAttached |-> FALSE]

\* The computed fields of an instance are read by the timer callback only,
\* and start assigns each of them before it reads it (lines 90-172): once no
\* timer is left for an instance they are dead, and the model forgets them.
Forget(s, i) ==
  IF s.inst[i].timer = 0 /\ \A t \in s.live : t.arg # i
  THEN [Undefined EXCEPT !.interruptListenersAttached =
                            s.inst[i].interruptListenersAttached]
  ELSE s.inst[i]

Commit(s) ==
  /\ runningInstances' = s.run
  /\ instances' = [i \in Inst |-> Forget(s, i)]
  /\ intervals' = s.live
  /\ scrollTop' = s.pos
  /\ owed' = s.owed

\* what the last operation was and what it did:
\*   op, arg   the operation and the instance or namespace it was given
\*   ret       its return value
\*   wrote     whether its write of the scroll position took for a view
\*   path      the branch it took; key: the key code of a keyup
\*   before    runningInstances before it
\*   from, target, exec, end   start and timer callbacks: the start
\*             position, the target position, the execution duration and
\*             the end time
\*   fired     the finish events it fired, in order, as <<instance, value>>
\*   hangs     it does not return
NoOperation ==
  [op |-> "init", arg |-> "", ret |-> FALSE, wrote |-> FALSE,
   path |-> "", key |-> 0, before |-> <<>>, from |-> None,
   target |-> None, exec |-> None, end |-> None, fired |-> <<>>,
   hangs |-> FALSE]

\* the end of an operation that has led to the state s; done: the record
\* of the operation for when it returns. An operation that is in a loop
\* without end does not return, and nothing runs after it.
Return(s, done) ==
  /\ ~s.cut
  /\ \A i \in Inst : s.owed[i] <= MaxOwed
  /\ Len(s.run) <= MaxRunning /\ Cardinality(s.live) <= MaxRunning
  /\ IF s.hung
     THEN /\ last' = [NoOperation EXCEPT !.op = done.op, !.arg = done.arg,
                                         !.before = done.before,
                                         !.hangs = TRUE]
          /\ UNCHANGED <<runningInstances, instances, intervals, scrollTop,
                         owed>>
     ELSE Commit(s) /\ last' = done

\* the instances as created, the controller as constructed
Created ==
  /\ pageScrollOptions \in
       {o \in [Inst -> [namespace : Namespace, interruptible : BOOLEAN,
                        scrollViews : UNION {ScrollViewsOf(i) : i \in Inst}]] :
          \A i \in Inst : /\ o[i].namespace \in NamespaceOf(i)
                           /\ o[i].scrollViews \in ScrollViewsOf(i)
                           /\ (HasNoScrollViews(o[i]) => o[i].interruptible)}
  /\ instances = [i \in Inst |-> Undefined]
  /\ runningInstances = <<>>
  /\ intervals = {}
  /\ scrollTop = [v \in View |-> 0]
  /\ currentTime = 0
  /\ owed = [i \in Inst |-> 0]
  /\ last = NoOperation

\* no finish listener calls the controller
Init ==
  /\ Created
  /\ pageScrollFinish = [i \in Inst |-> None]

\* a caller calls start(i)
StartCall(i) ==
  /\ ~last.hangs
  /\ owed[i] < MaxOwed
  /\ \E in \in StartInput :
       \E r \in {Start([Current EXCEPT !.owed[i] = @ + 1], i,
                        [target |-> in.target,
                         duration |-> in.timing.duration,
                         speed |-> in.timing.speed, accept |-> in.accept,
                         time |-> currentTime])} :
           /\ r.path = "scheduled" =>
                 Val(r.s.inst[i].endTime) <= MaxTime
           /\ Return(r.s,
                     [NoOperation EXCEPT
                        !.op = "start", !.arg = i, !.path = r.path,
                        !.wrote = r.wrote,
                        !.before = runningInstances, !.from = r.from,
                        !.target = IF r.path = "noScrollViews" THEN None
                                   ELSE in.target,
                        !.exec = r.exec, !.fired = r.s.fired])
  /\ UNCHANGED <<pageScrollOptions, currentTime, pageScrollFinish>>

\* a caller calls stop(i)
StopCall(i) ==
  /\ ~last.hangs
  /\ \E r \in {Stop(Current, i)} :
         Return(r.s,
                [NoOperation EXCEPT
                   !.op = "stop", !.arg = i, !.ret = r.ret,
                   !.before = runningInstances, !.fired = r.s.fired])
  /\ UNCHANGED <<pageScrollOptions, currentTime, pageScrollFinish>>

\* a caller calls stopAll(ns); NoNamespace: stopAll()
StopAllCall(ns) ==
  /\ ~last.hangs
  /\ \E r \in {StopAll(Current, ns)} :
         Return(r.s,
                [NoOperation EXCEPT
                   !.op = "stopAll", !.arg = ns, !.ret = r.ret,
                   !.before = runningInstances, !.fired = r.s.fired])
  /\ UNCHANGED <<pageScrollOptions, currentTime, pageScrollFinish>>

\* a live timer fires, an interval or more after it was set
TimerFires(t) ==
  /\ ~last.hangs
  /\ t \in intervals
  /\ currentTime >= t.at + Interval
  /\ \E accept \in Writes :
       \E r \in {Tick(Current, t.arg, currentTime, accept)} :
           Return(r.s,
                  [NoOperation EXCEPT
                     !.op = "tick", !.arg = t.arg, !.wrote = r.wrote,
                     !.path = r.path, !.before = runningInstances,
                     !.target = instances[t.arg].targetScrollPosition,
                     !.end = instances[t.arg].endTime,
                     !.fired = r.s.fired])
  /\ UNCHANGED <<pageScrollOptions, currentTime, pageScrollFinish>>

\* an attached interrupt listener of i reports an event
Interrupt(event, i) ==
  /\ ~last.hangs
  /\ instances[i].interruptListenersAttached
  /\ \E s \in {Report(Current, event, i)} :
         Return(s,
                [NoOperation EXCEPT
                   !.op = event.type, !.arg = i, !.key = event.keyCode,
                   !.path = event.target, !.before = runningInstances,
                   !.fired = s.fired])
  /\ UNCHANGED <<pageScrollOptions, currentTime, pageScrollFinish>>

\* time passes
ClockTicks ==
  /\ ~last.hangs
  /\ currentTime < MaxTime
  /\ currentTime' = currentTime + 1
  /\ last' = [NoOperation EXCEPT !.op = "time"]
  /\ UNCHANGED <<pageScrollOptions, instances, runningInstances, intervals,
                 scrollTop, owed, pageScrollFinish>>

Next ==
  \/ \E i \in Inst : StartCall(i)
  \/ \E i \in Inst : StopCall(i)
  \/ \E ns \in Namespace : StopAllCall(ns)
  \/ \E t \in intervals : TimerFires(t)
  \/ \E e \in Event, i \in Inst : Interrupt(e, i)
  \/ ClockTicks

Spec == Init /\ [][Next]_vars

\* the calls into the controller the finish listener of i may make: the
\* one of p starts p again or stops q, the one of q starts p or calls
\* stopAll()
Reaction(i) ==
  IF i = "p"
  THEN {[op |-> "start", arg |-> "p"], [op |-> "stop", arg |-> "q"]}
  ELSE {[op |-> "start", arg |-> "p"],
        [op |-> "stopAll", arg |-> NoNamespace]}

\* The behaviours of two instances with scroll views and namespaces of
\* their own, p interruptible, whose finish listeners call the controller
\* when the scroll was not successful.
ListenInit ==
  /\ Created
  /\ \A i \in Inst : ~HasNoScrollViews(pageScrollOptions[i])
  /\ pageScrollOptions["p"].interruptible
  /\ ~pageScrollOptions["q"].interruptible
  /\ pageScrollOptions["q"].namespace = "b"
  /\ pageScrollFinish \in
       {f \in [Inst -> {Some(c) : c \in UNION {Reaction(i) : i \in Inst}}] :
          \A i \in Inst : Val(f[i]) \in Reaction(i)}

ListenSpec == ListenInit /\ [][Next]_vars

\* The behaviours of two instances that both have scroll views, one of
\* them interruptible, in which the clock advances and setInterval keeps calling back while its timer
\* is live.
LiveInit ==
  /\ Init
  /\ \A i \in Inst : ~HasNoScrollViews(pageScrollOptions[i])
  /\ pageScrollOptions["p"].interruptible
  /\ ~pageScrollOptions["q"].interruptible

LiveSpec ==
  /\ LiveInit /\ [][Next]_vars
  /\ WF_vars(ClockTicks)
  /\ \A i \in Inst : WF_vars(\E t \in intervals : t.arg = i /\ TimerFires(t))

TypeOK ==
  /\ runningInstances \in Seq(Inst)
  /\ \A v \in View : scrollTop[v] \in 0..MaxPos
  /\ currentTime \in 0..MaxTime

\* ------------------------------------------------------------ the claims
Running(i) == \E k \in 1..Len(runningInstances) : runningInstances[k] = i

WasRunning(i) == \E k \in 1..Len(last.before) : last.before[k] = i

\* the finish events the last operation fired for i, in order
RECURSIVE FiredFor(_, _)
FiredFor(i, k) ==
  IF k > Len(last.fired) THEN <<>>
  ELSE IF last.fired[k][1] = i
       THEN <<last.fired[k][2]>> \o FiredFor(i, k + 1)
       ELSE FiredFor(i, k + 1)

Fired(i) == FiredFor(i, 1)

\* the timers that are live for i
TimersOf(i) == {t \in intervals : t.arg = i}

\* i is stopped: not registered, no timer handle, no live timer
Stopped(i) ==
  ~Running(i) /\ instances[i].timer = 0 /\ TimersOf(i) = {}

\* the views i writes
ViewsOf(i) ==
  IF HasNoScrollViews(pageScrollOptions[i]) THEN {}
  ELSE {Val(pageScrollOptions[i].scrollViews)[k] :
          k \in 1..Len(Val(pageScrollOptions[i].scrollViews))} \ {Null}

\* C1 as stated: at all times every start call on an instance has had its
\* completion callback exactly once, but for the one attempt that is still
\* running (the instance has its timer).
C1_OncePerStart ==
  \A i \in Inst : owed[i] = IF instances[i].timer # 0 THEN 1 ELSE 0

\* C1 as amended: that holds of every instance that has scroll views; an
\* instance without scroll views never gets a completion callback.
C1_OncePerStartWithScrollViews ==
  \A i \in Inst :
    IF HasNoScrollViews(pageScrollOptions[i])
    THEN Fired(i) = <<>>
    ELSE owed[i] = IF instances[i].timer # 0 THEN 1 ELSE 0

\* an attempt that was registered has ended by natural completion, and one
\* call of the callback was made for it
C1_Witness ==
  /\ last.op = "tick" /\ last.path = "completed"
  /\ Fired(last.arg) = <<TRUE>>
  /\ owed[last.arg] = 0

\* C2: the running set never holds two entries of one namespace, and a
\* start that registers its instance has stopped every instance of that
\* namespace that was running, firing its callback with false.
C2_OnePerNamespace ==
  /\ \A j, k \in 1..Len(runningInstances) :
       j # k => pageScrollOptions[runningInstances[j]].namespace
                  # pageScrollOptions[runningInstances[k]].namespace
  /\ (last.op = "start" /\ last.path = "scheduled") =>
       \A i \in Inst :
         (WasRunning(i) /\ pageScrollOptions[i].namespace
                            = pageScrollOptions[last.arg].namespace) =>
           /\ Fired(i) = <<FALSE>>
           /\ i # last.arg => Stopped(i)

\* a start has registered its instance after stopping another one of the
\* same namespace
C2_Witness ==
  /\ last.op = "start" /\ last.path = "scheduled" /\ Running(last.arg)
  /\ \E i \in Inst \ {last.arg} :
       /\ WasRunning(i)
       /\ pageScrollOptions[i].namespace
            = pageScrollOptions[last.arg].namespace

\* C3: a callback gets true only on natural completion and on the jump to
\* the target, and false when the animation is interrupted or aborted
\* before the target is reached.
C3_TrueOnlyAtTarget ==
  \A k \in 1..Len(last.fired) :
    last.fired[k][2] <=>
      \/ last.op = "tick" /\ last.path = "completed"
      \/ /\ last.op = "start" /\ last.path = "jump"
         /\ last.fired[k][1] = last.arg /\ k = Len(last.fired)

\* C4 as stated: a start with a target that resolves and a distance under
\* the threshold, or a duration of at most the interval, leaves the views
\* at the target, has fired the callback with true, and leaves the instance
\* with no timer, no listeners and out of the running set.
JumpCase ==
  /\ last.op = "start" /\ last.path # "noScrollViews" /\ last.target # None
  /\ \/ Abs(Val(last.target) - Val(last.from)) < MinScrollDistance
     \/ Val(last.exec) <= Interval

JumpDone ==
  /\ Fired(last.arg) = IF WasRunning(last.arg) THEN <<FALSE, TRUE>>
                       ELSE <<TRUE>>
  /\ Stopped(last.arg)
  /\ ~instances[last.arg].interruptListenersAttached

C5_StopAllStopsAll ==
  (last.op = "stopAll" /\ last.arg = NoNamespace) =>
    /\ runningInstances = <<>>
    /\ \A i \in Inst :
         IF WasRunning(i) THEN Stopped(i) /\ Fired(i) = <<FALSE>>
         ELSE Fired(i) = <<>>
    /\ last.ret <=> (last.before # <<>>)

\* stopAll() has stopped two running instances
C5_Witness ==
  /\ last.op = "stopAll" /\ last.arg = NoNamespace
  /\ Len(last.before) = 2 /\ last.ret

\* C6: stopAll(ns) leaves every instance of another namespace as it was
\* (registered or not, its fields, its timers) and fires no callback for
\* it, stops every instance of ns, and returns true iff one of ns ran.
C6_StopAllNamespaceOnly ==
  [][(last'.op = "stopAll" /\ last'.arg # NoNamespace) =>
       /\ \A i \in Inst :
            IF pageScrollOptions[i].namespace = last'.arg
            THEN Stopped(i)'
                 /\ Fired(i)' = IF Running(i) THEN <<FALSE>> ELSE <<>>
            ELSE /\ Running(i)' <=> Running(i)
                 /\ instances'[i] = instances[i]
                 /\ TimersOf(i)' = TimersOf(i)
                 /\ Fired(i)' = <<>>
       /\ last'.ret <=>
            \E i \in Inst : Running(i)
                             /\ pageScrollOptions[i].namespace = last'.arg
    ]_vars

\* stopAll(ns) has stopped an instance and left one of another namespace
C6_Witness ==
  /\ last.op = "stopAll" /\ last.arg # NoNamespace /\ last.ret
  /\ \E i \in Inst : /\ Running(i) /\ instances[i].timer # 0
                      /\ instances[i].interruptListenersAttached
                      /\ pageScrollOptions[i].namespace # last.arg

\* C7: stop(i) of a running instance returns true, and the instance is out
\* of the running set, its listeners detached, its timer cleared (no timer
\* is left that could call back for it), its callback fired with false.
C7_StopRunning ==
  (last.op = "stop" /\ WasRunning(last.arg)) =>
    /\ last.ret
    /\ Stopped(last.arg)
    /\ ~instances[last.arg].interruptListenersAttached
    /\ last.fired = <<<<last.arg, FALSE>>>>

\* stop has stopped a running instance
C7_Witness ==
  last.op = "stop" /\ WasRunning(last.arg) /\ last.ret

\* C8: stop(i) of an instance that is not running returns false, fires no
\* callback and changes nothing.
C8_StopNotRunning ==
  [][\A i \in Inst :
       (last'.op = "stop" /\ last'.arg = i /\ ~Running(i)) =>
         /\ ~last'.ret
         /\ last'.fired = <<>>
         /\ UNCHANGED <<runningInstances, instances, intervals, scrollTop,
                        owed>>
    ]_vars

\* stop was called on an instance that is not running while another one is
C8_Witness ==
  /\ last.op = "stop" /\ ~WasRunning(last.arg) /\ ~last.ret
  /\ \E i \in Inst : /\ Running(i)
                      /\ instances[i].interruptListenersAttached

\* C9: a registered instance gets, unless it is stopped or interrupted or
\* a write fails, to a timer callback at or after its end time that leaves
\* the views at the target, the instance out of the running set with no
\* timer, and its callback fired with true.
CompletedAtTarget(i) ==
  /\ last.op = "tick" /\ last.arg = i /\ last.path = "completed"
  /\ Val(last.end) <= currentTime
  /\ \A v \in ViewsOf(i) : scrollTop[v] = Val(last.target)
  /\ Stopped(i)
  /\ last.fired = <<<<i, TRUE>>>>

Interrupted(i) ==
  /\ last.op \in {"start", "stop", "stopAll", "keyup", "mousedown"}
  /\ WasRunning(i) /\ Fired(i) # <<>> /\ ~Fired(i)[1]

WriteFailed(i) ==
  last.op = "tick" /\ last.arg = i /\ ~last.wrote

C9_NaturalCompletion ==
  \A i \in Inst :
    Running(i) ~> (CompletedAtTarget(i) \/ Interrupted(i) \/ WriteFailed(i))

\* an animation has completed at its target, which it did not start from
C9_Witness ==
  \E i \in Inst : /\ CompletedAtTarget(i) /\ last.wrote
                  /\ Val(last.target) >= MinScrollDistance

\* C10: a keyup reported for a running interruptible instance stops it
\* when the key code is an interrupt key, and changes nothing and fires no
\* callback when it is not.
C10_KeyInterruptPolicy ==
  [][\A i \in Inst :
       (/\ last'.op = "keyup" /\ last'.arg = i /\ Running(i)
        /\ pageScrollOptions[i].interruptible) =>
         IF last'.key \in InterruptKeys
         THEN Stopped(i)' /\ Fired(i)' = <<FALSE>>
         ELSE /\ last'.fired = <<>>
              /\ UNCHANGED <<runningInstances, instances, intervals,
                             scrollTop, owed>>
    ]_vars

\* an interrupt key has stopped a running interruptible instance
C10_Witness ==
  /\ last.op = "keyup" /\ last.key \in InterruptKeys
  /\ WasRunning(last.arg) /\ Fired(last.arg) = <<FALSE>>

\* C11 as stated: a mousedown reported for a running interruptible instance
\* stops it when the target is inside one of its scroll views, and changes
\* nothing and fires no callback when it is outside all of them.
C11_MouseInterruptPolicy ==
  [][\A i \in Inst :
       (/\ last'.op = "mousedown" /\ last'.arg = i /\ Running(i)
        /\ pageScrollOptions[i].interruptible) =>
         IF last'.path \in ViewsOf(i)
         THEN Stopped(i)' /\ Fired(i)' = <<FALSE>>
         ELSE /\ last'.fired = <<>>
              /\ UNCHANGED <<runningInstances, instances, intervals,
                             scrollTop, owed>>
    ]_vars

\* C12: a start of an instance with scroll views whose target does not
\* resolve fires the callback with false (after the false of the run it
\* has cut short, if any) and leaves the instance out of the running set,
\* with no timer and no listeners, and the scroll offsets as they were.
C12_ResolutionFailure ==
  [][\A i \in Inst :
       (/\ last'.op = "start" /\ last'.arg = i /\ last'.target = None
        /\ pageScrollOptions[i].scrollViews \notin {None, Some(<<>>)}) =>
         /\ Fired(i)' = IF Running(i) THEN <<FALSE, FALSE>> ELSE <<FALSE>>
         /\ Stopped(i)'
         /\ ~instances'[i].interruptListenersAttached
         /\ scrollTop' = scrollTop
    ]_vars

\* a start of a running instance has found no target
C12_Witness ==
  /\ last.op = "start" /\ last.path = "noTarget"
  /\ WasRunning(last.arg) /\ Fired(last.arg) = <<FALSE, FALSE>>

\* C13: a start of an instance whose scrollViews is null or empty returns
\* with no callback fired for the instance, no timer scheduled and the
\* instance out of the running set.
C13_ConfigurationError ==
  (/\ last.op = "start"
   /\ pageScrollOptions[last.arg].scrollViews \in {None, Some(<<>>)}) =>
    /\ Fired(last.arg) = <<>>
    /\ Stopped(last.arg)

\* such a start has returned, after stopping a running instance
C13_Witness ==
  /\ last.op = "start" /\ last.path = "noScrollViews"
  /\ pageScrollOptions[last.arg].scrollViews = Some(<<>>)
  /\ last.fired # <<>>

\* how often i occurs in the running set
Occurrences(i) ==
  Cardinality({k \in 1..Len(runningInstances) : runningInstances[k] = i})

\* i is registered once and has one live timer, the one of its handle
RegisteredOnce(i) ==
  /\ Occurrences(i) = 1
  /\ instances[i].timer # 0
  /\ Cardinality(TimersOf(i)) = 1
  /\ \A t \in TimersOf(i) : t.id = instances[i].timer

\* C14: when start(i) has returned, exactly one of these holds: i is
\* registered once with one live timer; i is stopped and its callback has
\* been fired; i has no scroll views and is stopped.
C14_StartPostcondition ==
  last.op = "start" =>
    LET i == last.arg
        a == RegisteredOnce(i)
        b == Stopped(i) /\ Fired(i) # <<>>
        c == Stopped(i)
             /\ pageScrollOptions[i].scrollViews \in {None, Some(<<>>)}
    IN  \/ a /\ ~b /\ ~c
        \/ ~a /\ b /\ ~c
        \/ ~a /\ ~b /\ c

\* a start of a running instance has registered it again
C14_Witness ==
  /\ last.op = "start" /\ WasRunning(last.arg)
  /\ RegisteredOnce(last.arg) /\ Fired(last.arg) = <<FALSE>>

\* C15: an instance is in the running set iff its timer handle is set, it
\* is there once at most, and every live timer of an instance is the one
\* its handle names.
C15_RunningIffTimer ==
  \A i \in Inst :
    /\ Running(i) <=> instances[i].timer # 0
    /\ Occurrences(i) <= 1
    /\ \A t \in TimersOf(i) : t.id = instances[i].timer

\* two instances run, each with its timer, after one of them was restarted
C15_Witness ==
  /\ \A i \in Inst : RegisteredOnce(i)
  /\ last.op = "start" /\ last.path = "scheduled" /\ WasRunning(last.arg)

\* C16: a timer callback whose write of the new position takes for no
\* scroll view leaves the instance out of the running set, its listeners
\* detached and its timer cleared, and fires its callback with true.
C16_WriteFailureAbort ==
  (last.op = "tick" /\ ~last.wrote) =>
    /\ Stopped(last.arg)
    /\ ~instances[last.arg].interruptListenersAttached
    /\ last.fired = <<<<last.arg, TRUE>>>>

\* a write has failed before the end time of an interruptible instance
C16_Witness ==
  /\ last.op = "tick" /\ last.path = "aborted" /\ ~last.wrote
  /\ Val(last.end) > currentTime
  /\ pageScrollOptions[last.arg].interruptible
  /\ last.fired = <<<<last.arg, TRUE>>>>

\* C17 as stated: a start of i, or an event reported for i, leaves every
\* running instance of another namespace than i's registered, with its
\* fields and timers as they were, and fires no callback for it.
C17_CrossNamespace ==
  [][\A i, j \in Inst :
       (/\ last'.op \in {"start", "keyup", "mousedown"} /\ last'.arg = i
        /\ Running(j)
        /\ pageScrollOptions[j].namespace # pageScrollOptions[i].namespace) =>
         /\ Running(j)'
         /\ instances'[j] = instances[j]
         /\ TimersOf(j)' = TimersOf(j)
         /\ Fired(j)' = <<>>
    ]_vars

\* C18 as stated: a keyup or mousedown, whichever instance it is reported
\* for, leaves every running instance that is not interruptible registered,
\* with its fields and timers as they were, and fires no callback for it.
C18_NotInterruptible ==
  [][\A j \in Inst :
       (/\ last'.op \in {"keyup", "mousedown"}
        /\ Running(j) /\ ~pageScrollOptions[j].interruptible) =>
         /\ Running(j)'
         /\ instances'[j] = instances[j]
         /\ TimersOf(j)' = TimersOf(j)
         /\ Fired(j)' = <<>>
    ]_vars

\* C20: an instance has interrupt listeners attached only while it is in
\* the running set and interruptible; so every operation that takes it out
\* of the running set has detached them, and a start that does not
\* register its instance leaves none attached.
C20_NoListenerLeak ==
  \A i \in Inst :
    instances[i].interruptListenersAttached =>
      Running(i) /\ pageScrollOptions[i].interruptible

\* a start of a running interruptible instance has jumped to the target
C20_Witness ==
  /\ last.op = "start" /\ last.path = "jump" /\ WasRunning(last.arg)
  /\ pageScrollOptions[last.arg].interruptible
  /\ ~instances[last.arg].interruptListenersAttached

\* C19 as stated: stopAll(ns) returns, and when it has, no instance of ns
\* (no instance at all for stopAll()) is in the running set, whatever the
\* finish listeners that ran during it have called.
C19_StopAllNeverSkips ==
  last.op = "stopAll" =>
    /\ ~last.hangs
    /\ \A i \in Inst :
         (last.arg = NoNamespace \/ pageScrollOptions[i].namespace = last.arg)
           => ~Running(i)

====
